---- MODULE Spec2Model ----
(***************************************************************************)
(* Model of dagr's program package (program.go): Program.Execute, the two  *)
(* forwardOutput goroutines, the supervisor goroutine that waits for the   *)
(* child process and classifies its exit, and extractExitCode.             *)
(*                                                                         *)
(* The Execution type (NewExecution, SendMessage, Finish), the ExitCode    *)
(* constants and the schedule engine that calls Execute live outside       *)
(* program.go; they are modelled from the written specification and are    *)
(* marked as such where they are defined.                                  *)
(***************************************************************************)
EXTENDS Integers, Sequences, FiniteSets, TLC

\* ---------------------------------------------------------------- bounds
\* The schedule engine launches at most MaxRuns runs in a behaviour: a run
\* that ends Retry, its retry, and one launch more.
MaxRuns == 3
\* The child processes write at most MaxLines lines in total where one
\* Execution is followed (Spec), and at most MaxSharedLines where several
\* are (ConcSpec, SchedSpec).
MaxLines == 2
MaxSharedLines == 0
\* Capacity of the messages channel.  program.go:17 sets 1000; the model
\* scales it down and keeps MaxLines above it, so that a forwarder does find
\* the channel full.
BUFFER_SIZE == 1
\* An exit code outside the contract codes 0, 1 and 2.
MaxExitCode == 5

\* ------------------------------------------------------------- constants
\* ExitCode values (spec section 3 and the README: 0 success, 1 retry, 2 failed).
Success == 0
Retry == 1
Failed == 2
\* The status the spec (section 3) gives an Execution whose exit status cannot
\* be interpreted; program.go never passes such a value to Finish.
InternalError == 3

Programs == {"p", "q"}
\* Goroutines that call Execute directly, once each.
FreeCallers == {"c1", "c2"}
\* The programs whose schedule engine is followed; the engine of program p
\* calls Execute as caller p.
Scheduled == {"p"}
Callers == FreeCallers \cup Scheduled
ExecIds == 1..(Cardinality(FreeCallers) + MaxRuns)
\* messageType of the two forwarders: "out" reads stdout, "err" reads stderr.
Streams == {"out", "err"}
NoOne == "none"
NilErr == [type |-> "nil"]
NoExec == 0
LaunchErrors == {"StdoutPipe", "StderrPipe", "Start"}

\* How a child process can end, as cmd.Wait sees it: it exited with a code,
\* a signal killed it, or the wait call itself failed.
ExitCodes == {0, 1, 2, MaxExitCode}

Terminations ==
  [kind : {"exit"}, code : ExitCodes]
    \cup {[kind |-> "signal", code |-> 9], [kind |-> "waitfail", code |-> 0]}

VARIABLES
  mutex,        \* Program.RWMutex: the caller holding p's lock, or NoOne
  executions,   \* Program.executions: sequence of execution ids
  caller,       \* each caller's position in Execute and its last return value
  runsLeft,     \* launches the schedule engines may still make
  lockCount,    \* number of p.Lock() acquisitions so far (history)
  execs,        \* number of Executions created so far
  prog,         \* Execution.Program
  ticket,       \* the lock acquisition an Execution was created under (history)
  child,        \* the child process: lines written per stream, closed streams, exited
  linesLeft,    \* lines the children may still write
  fwd,          \* the forwardOutput goroutines
  sup,          \* the supervisor goroutine: position, err of cmd.Wait, how the child ended
  status,       \* Execution status: finished flag and exit code
  finishCalls,  \* number of Finish calls per Execution (history)
  closedCh,     \* channels of the Execution that have been closed
  messages,     \* content of the messages channel
  recorded,     \* messages the Execution has taken off the channel
  received,     \* values the consumer has received from ch
  engine,       \* schedule engine state per program
  dayStart,     \* number of Executions created when the program's daily trigger last fired
  observer      \* a goroutine that calls Executions()

launchVars == <<mutex, executions, caller, lockCount, execs, prog, ticket, observer>>
engineVars == <<engine, runsLeft, dayStart>>
childVars == <<child, linesLeft>>
supVars == <<sup, status, finishCalls, closedCh>>
logVars == <<messages, recorded>>
vars == <<launchVars, childVars, fwd, supVars, logVars, received, engineVars>>

\* ------------------------------------------------------------------ text
Digits == <<"0", "1", "2", "3", "4", "5", "6", "7", "8", "9">>

RECURSIVE Itoa(_)
\* Decimal formatting of an integer, as fmt.Sprint prints an ExitCode.
Itoa(n) ==
  IF n < 0 THEN <<"-">> \o Itoa(0 - n)
  ELSE IF n < 10 THEN <<Digits[n + 1]>>
  ELSE Itoa(n \div 10) \o <<Digits[(n % 10) + 1]>>

\* fmt.Sprint of two operands, the first a string: no space is added.
Sprint(a, b) == a \o b

\* sub occurs in text as a contiguous run.
Contains(text, sub) ==
  \E i \in 1..(Len(text) - Len(sub) + 1) :
    SubSeq(text, i, i + Len(sub) - 1) = sub

Message(type, text) == [type |-> type, text |-> text]

LineText(n) == <<"line ">> \o Itoa(n)

\* ------------------------------------------------------------------ Init
IdleCaller == [pc |-> "idle", prog |-> "none", exec |-> NoExec, err |-> "nil", ticket |-> 0]
NoForwarder == [pc |-> "none", read |-> 0, line |-> 0]
NoTermination == [kind |-> "none", code |-> 0]
NoSupervisor == [pc |-> "none", err |-> NilErr, term |-> NoTermination]
NoChild == [written |-> [s \in Streams |-> 0], closed |-> {}, exited |-> FALSE]
NoStatus == [finished |-> FALSE, exitCode |-> 0]
\* The observer is not in a call of Executions(); seen is what its last call
\* returned.
IdleObserver == [pc |-> "idle", prog |-> "none", before |-> <<>>, seen |-> <<>>]

\* Nothing has been launched; lines is what the children may write.
Start(lines) ==
  /\ mutex = [p \in Programs |-> NoOne]
  /\ executions = [p \in Programs |-> <<>>]
  /\ caller = [c \in Callers |-> IdleCaller]
  /\ runsLeft = MaxRuns
  /\ lockCount = 0
  /\ execs = 0
  /\ prog = [e \in ExecIds |-> "none"]
  /\ ticket = [e \in ExecIds |-> 0]
  /\ child = [e \in ExecIds |-> NoChild]
  /\ linesLeft = lines
  /\ fwd = [e \in ExecIds |-> [s \in Streams |-> NoForwarder]]
  /\ sup = [e \in ExecIds |-> NoSupervisor]
  /\ status = [e \in ExecIds |-> NoStatus]
  /\ finishCalls = [e \in ExecIds |-> 0]
  /\ closedCh = [e \in ExecIds |-> {}]
  /\ messages = [e \in ExecIds |-> <<>>]
  /\ recorded = [e \in ExecIds |-> <<>>]
  /\ received = <<>>
  /\ engine = [p \in Programs |-> "Idle"]
  /\ dayStart = [p \in Programs |-> 0]
  /\ observer = IdleObserver

Init == Start(MaxLines)

\* Executions created so far.
Created == 1..execs

\* --------------------------------------------------------------- Execute
\* A caller enters p.Execute(ch) and is about to call p.Lock().
ExecuteCall(c, p) ==
  /\ caller[c].pc = "idle"
  /\ caller' = [caller EXCEPT ![c] = [IdleCaller EXCEPT !.pc = "lock", !.prog = p]]
  /\ UNCHANGED <<mutex, executions, lockCount, execs, prog, ticket, observer>>
  /\ UNCHANGED <<childVars, fwd, supVars, logVars>>

\* Mutant: Execute does not wait for the lock.
ExecuteLockFree(c) ==
  /\ caller[c].pc = "lock"
  /\ mutex' = [mutex EXCEPT ![caller[c].prog] = c]
  /\ lockCount' = lockCount + 1
  /\ caller' = [caller EXCEPT ![c].pc = "locked", ![c].ticket = lockCount + 1]
  /\ UNCHANGED <<executions, execs, prog, ticket, observer>>
  /\ UNCHANGED <<childVars, fwd, supVars, logVars>>

\* Mutant: one lock is shared by all Programs.
ExecuteLockGlobal(c) ==
  /\ caller[c].pc = "lock"
  /\ \A p \in Programs : mutex[p] = NoOne
  /\ mutex' = [mutex EXCEPT ![caller[c].prog] = c]
  /\ lockCount' = lockCount + 1
  /\ caller' = [caller EXCEPT ![c].pc = "locked", ![c].ticket = lockCount + 1]
  /\ UNCHANGED <<executions, execs, prog, ticket, observer>>
  /\ UNCHANGED <<childVars, fwd, supVars, logVars>>

\* p.Lock() returns.
ExecuteLock(c) ==
  /\ caller[c].pc = "lock"
  /\ mutex[caller[c].prog] = NoOne
  /\ mutex' = [mutex EXCEPT ![caller[c].prog] = c]
  /\ lockCount' = lockCount + 1
  /\ caller' = [caller EXCEPT ![c].pc = "locked", ![c].ticket = lockCount + 1]
  /\ UNCHANGED <<executions, execs, prog, ticket, observer>>
  /\ UNCHANGED <<childVars, fwd, supVars, logVars>>

\* Mutant: a failed launch still leaves an entry in the history.
ExecuteFailAppended(c, why) ==
  /\ caller[c].pc = "locked"
  /\ mutex' = [mutex EXCEPT ![caller[c].prog] = NoOne]
  /\ executions' = [executions EXCEPT ![caller[c].prog] = Append(@, NoExec)]
  /\ caller' = [caller EXCEPT ![c].pc = "returned", ![c].exec = NoExec, ![c].err = why]
  /\ UNCHANGED <<lockCount, execs, prog, ticket, observer>>
  /\ UNCHANGED <<childVars, fwd, supVars, logVars>>

\* StdoutPipe, StderrPipe or Start fails: return nil, err (deferred Unlock).
ExecuteFail(c, why) ==
  /\ caller[c].pc = "locked"
  /\ mutex' = [mutex EXCEPT ![caller[c].prog] = NoOne]
  /\ caller' = [caller EXCEPT ![c].pc = "returned", ![c].exec = NoExec, ![c].err = why]
  /\ UNCHANGED <<executions, lockCount, execs, prog, ticket, observer>>
  /\ UNCHANGED <<childVars, fwd, supVars, logVars>>

\* NewExecution(p, messages): a running Execution with an empty log.
NewExecution(e, p) ==
  /\ prog' = [prog EXCEPT ![e] = p]
  /\ status' = [status EXCEPT ![e] = [finished |-> FALSE, exitCode |-> 0]]
  /\ messages' = [messages EXCEPT ![e] = <<>>]
  /\ recorded' = [recorded EXCEPT ![e] = <<>>]

\* The process starts; the Execution, its channels, the two forwarders and
\* the supervisor are created.
ExecuteStart(c) ==
  LET e == execs + 1 IN
  /\ caller[c].pc = "locked"
  /\ execs' = e
  /\ NewExecution(e, caller[c].prog)
  /\ ticket' = [ticket EXCEPT ![e] = caller[c].ticket]
  /\ child' = [child EXCEPT ![e] = NoChild]
  /\ fwd' = [fwd EXCEPT ![e] = [s \in Streams |-> [NoForwarder EXCEPT !.pc = "scan"]]]
  /\ sup' = [sup EXCEPT ![e] = [NoSupervisor EXCEPT !.pc = "recvOut"]]
  /\ caller' = [caller EXCEPT ![c].pc = "started", ![c].exec = e]
  /\ UNCHANGED <<mutex, executions, lockCount, linesLeft,
                 finishCalls, closedCh, observer>>

\* Mutant: Execute returns the Execution without appending it to the history.
ExecuteReturnNoAppend(c) ==
  /\ caller[c].pc = "started"
  /\ mutex' = [mutex EXCEPT ![caller[c].prog] = NoOne]
  /\ caller' = [caller EXCEPT ![c].pc = "returned", ![c].err = "nil"]
  /\ UNCHANGED <<executions, lockCount, execs, prog, ticket, observer>>
  /\ UNCHANGED <<childVars, fwd, supVars, logVars>>

\* p.executions = append(p.executions, execution); return execution, nil
\* (deferred Unlock).
ExecuteReturn(c) ==
  /\ caller[c].pc = "started"
  /\ executions' = [executions EXCEPT ![caller[c].prog] = Append(@, caller[c].exec)]
  /\ mutex' = [mutex EXCEPT ![caller[c].prog] = NoOne]
  /\ caller' = [caller EXCEPT ![c].pc = "returned", ![c].err = "nil"]
  /\ UNCHANGED <<lockCount, execs, prog, ticket, observer>>
  /\ UNCHANGED <<childVars, fwd, supVars, logVars>>

\* The steps of Execute after the call.
Execute(c) ==
  \/ ExecuteLock(c)
  \/ \E why \in LaunchErrors : ExecuteFail(c, why)
  \/ ExecuteStart(c)
  \/ ExecuteReturn(c)

\* --------------------------------------------------------- child process
ChildWrite(e, s) ==
  /\ e \in Created
  /\ ~child[e].exited
  /\ s \notin child[e].closed
  /\ linesLeft > 0
  /\ linesLeft' = linesLeft - 1
  /\ child' = [child EXCEPT ![e].written[s] = @ + 1]

\* The child closes one of its output streams.
ChildClose(e, s) ==
  /\ e \in Created
  /\ ~child[e].exited
  /\ s \notin child[e].closed
  /\ child' = [child EXCEPT ![e].closed = @ \cup {s}]
  /\ UNCHANGED linesLeft

\* The child exits, which closes the streams it still has open.
ChildExit(e) ==
  /\ e \in Created
  /\ ~child[e].exited
  /\ child' = [child EXCEPT ![e].closed = Streams, ![e].exited = TRUE]
  /\ UNCHANGED linesLeft

Child(e) ==
  /\ \/ \E s \in Streams : ChildWrite(e, s)
     \/ \E s \in Streams : ChildClose(e, s)
     \/ ChildExit(e)
  /\ UNCHANGED <<launchVars, fwd, supVars, logVars, received, engineVars>>

\* ----------------------------------------------------------- message log
\* The messages appended to the Execution's log so far: those already taken
\* off the channel followed by those still pending in it.
Log(e) == recorded[e] \o messages[e]

\* Execution.SendMessage: a send on the messages channel, which blocks
\* while the channel is full.
CanSend(e) == Len(messages[e]) < BUFFER_SIZE

SendMessage(e, type, text) ==
  /\ CanSend(e)
  /\ messages' = [messages EXCEPT ![e] = Append(@, Message(type, text))]
  /\ UNCHANGED recorded

\* The Execution takes the oldest pending message off the channel and keeps
\* it in its record.
RecordMessage(e) ==
  /\ e \in Created
  /\ messages[e] # <<>>
  /\ recorded' = [recorded EXCEPT ![e] = Append(@, Head(messages[e]))]
  /\ messages' = [messages EXCEPT ![e] = Tail(@)]
  /\ UNCHANGED <<launchVars, childVars, fwd, supVars, received, engineVars>>

\* ---------------------------------------------------------- forwardOutput
\* The stream has ended cleanly: all its lines are read and it is closed.
AtEOF(e, s) == fwd[e][s].read = child[e].written[s] /\ s \in child[e].closed

\* Mutant: the forwarder reads the next line while the line before it is
\* still to be sent.
ForwardScanLineAhead(e, s) ==
  /\ fwd[e][s].pc \in {"scan", "send"}
  /\ fwd[e][s].read < child[e].written[s]
  /\ fwd' = [fwd EXCEPT ![e][s].pc = "send", ![e][s].read = @ + 1,
                        ![e][s].line = fwd[e][s].read + 1]
  /\ UNCHANGED logVars

\* scanner.Scan() returns true: the next line of the stream has been read.
ForwardScanLine(e, s) ==
  /\ fwd[e][s].pc = "scan"
  /\ fwd[e][s].read < child[e].written[s]
  /\ fwd' = [fwd EXCEPT ![e][s].pc = "send", ![e][s].read = @ + 1,
                        ![e][s].line = fwd[e][s].read + 1]
  /\ UNCHANGED logVars

\* Mutant: at end of stream the forwarder returns without its send on the
\* finished channel.
ForwardScanEOFSilent(e, s) ==
  /\ fwd[e][s].pc = "scan"
  /\ AtEOF(e, s)
  /\ fwd' = [fwd EXCEPT ![e][s].pc = "done"]
  /\ UNCHANGED logVars

\* scanner.Scan() returns false at end of stream; scanner.Err() is nil.
ForwardScanEOF(e, s) ==
  /\ fwd[e][s].pc = "scan"
  /\ AtEOF(e, s)
  /\ fwd' = [fwd EXCEPT ![e][s].pc = "signal"]
  /\ UNCHANGED logVars

\* Mutant: on a read error the forwarder returns without its send on the
\* finished channel.
ForwardScanErrorSilent(e, s) ==
  /\ fwd[e][s].pc = "scan"
  /\ ~AtEOF(e, s)
  /\ fwd' = [fwd EXCEPT ![e][s].pc = "failed"]
  /\ UNCHANGED logVars

\* scanner.Scan() returns false on a read error (a failed read, or a line
\* longer than the scanner's buffer); the error is logged.
ForwardScanError(e, s) ==
  /\ fwd[e][s].pc = "scan"
  /\ ~AtEOF(e, s)
  /\ fwd' = [fwd EXCEPT ![e][s].pc = "signal"]
  /\ UNCHANGED logVars

\* execution.SendMessage(messageType, scanner.Text())
ForwardSend(e, s) ==
  /\ fwd[e][s].pc = "send"
  /\ SendMessage(e, s, LineText(fwd[e][s].line))
  /\ fwd' = [fwd EXCEPT ![e][s].pc = "scan", ![e][s].line = 0]

\* The steps forwardOutput takes of its own accord: reading what the stream
\* holds and sending it on.
ForwardProgress(e, s) ==
  /\ e \in Created
  /\ \/ ForwardScanLine(e, s)
     \/ ForwardScanEOF(e, s)
     \/ ForwardSend(e, s)
  /\ UNCHANGED <<launchVars, childVars, supVars, received, engineVars>>

\* The steps of forwardOutput up to its send on the finished channel.
forwardOutput(e, s) ==
  \/ ForwardProgress(e, s)
  \/ /\ e \in Created
     /\ ForwardScanError(e, s)
     /\ UNCHANGED <<launchVars, childVars, supVars, received, engineVars>>

\* ------------------------------------------------------------ supervisor
FinishedStream(pc) == IF pc = "recvOut" THEN "out" ELSE "err"

\* Mutant: the supervisor waits for one forwarder only.
AfterReceiveOnce(pc) == "wait"

\* Where the supervisor goes after a receive on a finished channel.
AfterReceive(pc) == IF pc = "recvOut" THEN "recvErr" ELSE "wait"

\* <-stdoutFinished, <-stderrFinished: the channels are unbuffered, so the
\* forwarder's send and the supervisor's receive are one step.
SupervisorReceive(e) ==
  /\ e \in Created
  /\ sup[e].pc \in {"recvOut", "recvErr"}
  /\ fwd[e][FinishedStream(sup[e].pc)].pc = "signal"
  /\ fwd' = [fwd EXCEPT ![e][FinishedStream(sup[e].pc)].pc = "done"]
  /\ sup' = [sup EXCEPT ![e].pc = AfterReceive(sup[e].pc)]
  /\ UNCHANGED <<launchVars, childVars, status, finishCalls, closedCh,
                 logVars, received, engineVars>>

\* The error cmd.Wait returns for a termination.
WaitError(t) ==
  IF t.kind = "exit" /\ t.code = 0 THEN NilErr
  ELSE IF t.kind \in {"exit", "signal"} THEN [type |-> "ExitError", ws |-> t]
  ELSE [type |-> "error", text |-> "wait: no child processes"]

\* err := cmd.Wait(): returns once the child has exited.
SupervisorWait(e) ==
  /\ e \in Created
  /\ sup[e].pc = "wait"
  /\ child[e].exited
  /\ \E t \in Terminations :
       sup' = [sup EXCEPT ![e].pc = "report", ![e].err = WaitError(t), ![e].term = t]
  /\ UNCHANGED <<launchVars, childVars, fwd, status, finishCalls, closedCh,
                 logVars, received, engineVars>>

\* syscall.WaitStatus.ExitStatus(): the exit code, or -1 if the process did
\* not exit (a signal killed it).
ExitStatus(ws) == IF ws.kind = "exit" THEN ws.code ELSE 0 - 1

\* Mutant: the exit status is dropped.
extractExitCodeZero(err) == [code |-> 0, err |-> NilErr]

extractExitCode(err) ==
  IF err.type = "ExitError"
  THEN [code |-> ExitStatus(err.ws), err |-> NilErr]
  ELSE [code |-> 0, err |-> err]

\* The three ways the supervisor ends: the message it sends and the code it
\* passes to Finish and to ch.
Outcome(err) ==
  IF err = NilErr
  THEN [msg |-> Message("ok", <<"successfully completed">>), code |-> Success]
  ELSE LET r == extractExitCode(err) IN
       IF r.err # NilErr
       THEN [msg |-> Message("fail", Sprint(<<"failed to run ">>, <<r.err.text>>)),
             code |-> Failed]
       ELSE [msg |-> Message("fail", Sprint(<<"exited with status ">>, Itoa(r.code))),
             code |-> r.code]

\* Mutant: the supervisor sends its final message without waiting for the
\* forwarders.
SupervisorReportEarly(e) ==
  /\ e \in Created
  /\ sup[e].pc \in {"recvOut", "recvErr", "report"}
  /\ SendMessage(e, Outcome(sup[e].err).msg.type, Outcome(sup[e].err).msg.text)
  /\ sup' = [sup EXCEPT ![e].pc = "finish"]
  /\ UNCHANGED <<launchVars, childVars, fwd, status, finishCalls, closedCh,
                 received, engineVars>>

\* execution.SendMessage("ok" | "fail", ...)
SupervisorReport(e) ==
  /\ e \in Created
  /\ sup[e].pc = "report"
  /\ SendMessage(e, Outcome(sup[e].err).msg.type, Outcome(sup[e].err).msg.text)
  /\ sup' = [sup EXCEPT ![e].pc = "finish"]
  /\ UNCHANGED <<launchVars, childVars, fwd, status, finishCalls, closedCh,
                 received, engineVars>>

\* Execution.Finish(exitCode): the Execution is finished with that code.
Finish(e, exitCode) ==
  /\ status' = [status EXCEPT ![e] = [finished |-> TRUE, exitCode |-> exitCode]]
  /\ finishCalls' = [finishCalls EXCEPT ![e] = @ + 1]

\* Mutant: the supervisor publishes without calling Finish.
SupervisorFinishSkipped(e) ==
  /\ e \in Created
  /\ sup[e].pc = "finish"
  /\ sup' = [sup EXCEPT ![e].pc = "publish"]
  /\ UNCHANGED <<launchVars, childVars, fwd, status, finishCalls, closedCh, logVars,
                 received, engineVars>>

\* Mutant: the supervisor calls Finish a second time.
SupervisorFinishTwice(e) ==
  /\ e \in Created
  /\ sup[e].pc = "finish"
  /\ Finish(e, Outcome(sup[e].err).code)
  /\ sup' = [sup EXCEPT ![e].pc = IF finishCalls[e] = 0 THEN "finish" ELSE "publish"]
  /\ UNCHANGED <<launchVars, childVars, fwd, closedCh, logVars, received, engineVars>>

\* execution.Finish(Success | Failed | exitCode)
SupervisorFinish(e) ==
  /\ e \in Created
  /\ sup[e].pc = "finish"
  /\ Finish(e, Outcome(sup[e].err).code)
  /\ sup' = [sup EXCEPT ![e].pc = "publish"]
  /\ UNCHANGED <<launchVars, childVars, fwd, closedCh, logVars, received, engineVars>>

\* Mutant: the supervisor publishes Retry whatever the outcome.
SupervisorPublishRetry(e) ==
  /\ e \in Created
  /\ sup[e].pc = "publish"
  /\ received' = Append(received, [exec |-> e, code |-> Retry])
  /\ sup' = [sup EXCEPT ![e].pc = "return"]
  /\ UNCHANGED <<launchVars, childVars, fwd, status, finishCalls, closedCh,
                 logVars>>

\* Mutant: the supervisor publishes Success whatever the outcome.
SupervisorPublishSuccess(e) ==
  /\ e \in Created
  /\ sup[e].pc = "publish"
  /\ received' = Append(received, [exec |-> e, code |-> Success])
  /\ sup' = [sup EXCEPT ![e].pc = "return"]
  /\ UNCHANGED <<launchVars, childVars, fwd, status, finishCalls, closedCh,
                 logVars>>

\* ch <- Success | Failed | exitCode, completed by a receiver; the
\* supervisor then returns.
SupervisorPublish(e) ==
  /\ e \in Created
  /\ sup[e].pc = "publish"
  /\ received' = Append(received, [exec |-> e, code |-> Outcome(sup[e].err).code])
  /\ sup' = [sup EXCEPT ![e].pc = "return"]
  /\ UNCHANGED <<launchVars, childVars, fwd, status, finishCalls, closedCh,
                 logVars>>

\* Mutant: the closes are not deferred; the supervisor closes the channels
\* as it starts.
SupervisorReturnEager(e) ==
  /\ e \in Created
  /\ sup[e].pc \in {"recvOut", "recvErr"}
  /\ closedCh[e] = {}
  /\ closedCh' = [closedCh EXCEPT ![e] = {"stderrFinished", "stdoutFinished", "messages"}]
  /\ UNCHANGED <<launchVars, childVars, fwd, sup, status, finishCalls, logVars,
                 received, engineVars>>

\* The supervisor returns and its deferred closes run: stderrFinished,
\* stdoutFinished, messages.
SupervisorReturn(e) ==
  /\ e \in Created
  /\ sup[e].pc = "return"
  /\ closedCh' = [closedCh EXCEPT ![e] = {"stderrFinished", "stdoutFinished", "messages"}]
  /\ sup' = [sup EXCEPT ![e].pc = "done"]
  /\ UNCHANGED <<launchVars, childVars, fwd, status, finishCalls, logVars,
                 received, engineVars>>

\* ------------------------------------------------------------ Executions
\* An observer enters p.Executions() and starts to read p.executions.  The
\* method takes no lock.  before is the history as the read starts.
ExecutionsCall(p) ==
  /\ observer.pc = "idle"
  /\ observer' = [pc |-> "read", prog |-> p, before |-> executions[p], seen |-> <<>>]
  /\ UNCHANGED <<mutex, executions, caller, lockCount, execs, prog, ticket>>
  /\ UNCHANGED <<childVars, fwd, supVars, logVars, received, engineVars>>

\* What a read of the slice can return.  With no append during the read it is
\* the history.  A read that races with the append of Execute may see the
\* slice as it was, as it is, or the old array with the new length, whose
\* last element is not an Execution.
ReadOutcomes(before, now) ==
  IF now = before THEN {now} ELSE {before, now, Append(before, NoExec)}

\* return p.executions
ExecutionsReturn ==
  /\ observer.pc = "read"
  /\ \E r \in ReadOutcomes(observer.before, executions[observer.prog]) :
       observer' = [IdleObserver EXCEPT !.prog = observer.prog, !.seen = r]
  /\ UNCHANGED <<mutex, executions, caller, lockCount, execs, prog, ticket>>
  /\ UNCHANGED <<childVars, fwd, supVars, logVars, received, engineVars>>

\* ------------------------------------------------------------- consumers
\* Some goroutine receives from ch.
Receive(e) ==
  /\ SupervisorPublish(e)
  /\ UNCHANGED engineVars

\* --------------------------------------------------- schedule engine
\* The per-program state machine of spec section 4.4.  It is the only
\* caller of Execute for its program and the receiver of its results.

\* The daily trigger fires.
EngineTrigger(p) ==
  /\ engine[p] \in {"Idle", "DoneToday"}
  /\ engine' = [engine EXCEPT ![p] = "Due"]
  /\ dayStart' = [dayStart EXCEPT ![p] = execs]
  /\ UNCHANGED <<runsLeft, launchVars, childVars, fwd, supVars, logVars, received>>

\* Due -> Running: the engine calls Execute.
EngineLaunch(p) ==
  /\ engine[p] = "Due"
  /\ runsLeft > 0
  /\ runsLeft' = runsLeft - 1
  /\ ExecuteCall(p, p)
  /\ engine' = [engine EXCEPT ![p] = "Launching"]
  /\ UNCHANGED <<received, dayStart>>

\* Execute has returned: the run is in flight, or the launch failed and the
\* next trigger will try again.
EngineLaunched(p) ==
  /\ engine[p] = "Launching"
  /\ caller[p].pc = "returned"
  /\ engine' = [engine EXCEPT ![p] = IF caller[p].err = "nil" THEN "Running" ELSE "Idle"]
  /\ caller' = [caller EXCEPT ![p] = IdleCaller]
  /\ UNCHANGED <<mutex, executions, lockCount, execs, prog, ticket, observer,
                 runsLeft, dayStart, childVars, fwd, supVars, logVars, received>>

\* What the engine does with a result.
AfterResult(code) == IF code = Retry THEN "RetryScheduled" ELSE "DoneToday"

\* The engine receives the result of its program's run from ch.
EngineResult(p) ==
  /\ engine[p] = "Running"
  /\ \E e \in Created :
       /\ prog[e] = p
       /\ SupervisorPublish(e)
       /\ engine' = [engine EXCEPT ![p] = AfterResult(Outcome(sup[e].err).code)]
  /\ UNCHANGED <<runsLeft, dayStart>>

\* The retry delay elapses.
EngineRetry(p) ==
  /\ engine[p] = "RetryScheduled"
  /\ engine' = [engine EXCEPT ![p] = "Due"]
  /\ UNCHANGED <<runsLeft, dayStart, launchVars, childVars, fwd, supVars, logVars, received>>

\* --------------------------------------------------------- specification
\* The goroutines of the Executions and the child processes.
Run ==
  \/ \E e \in ExecIds : Child(e)
  \/ \E e \in ExecIds, s \in Streams : forwardOutput(e, s)
  \/ \E e \in ExecIds : SupervisorReceive(e)
  \/ \E e \in ExecIds : SupervisorWait(e)
  \/ \E e \in ExecIds : SupervisorReport(e)
  \/ \E e \in ExecIds : SupervisorFinish(e)
  \/ \E e \in ExecIds : SupervisorReturn(e)
  \/ \E e \in ExecIds : RecordMessage(e)

\* One goroutine calls Execute once; its Execution is followed in detail.
Next ==
  \/ \E p \in Programs : ExecuteCall("c1", p) /\ UNCHANGED <<received, engineVars>>
  \/ Execute("c1") /\ UNCHANGED <<received, engineVars>>
  \/ Run
  \/ \E e \in ExecIds : Receive(e)

Spec == Init /\ [][Next]_vars

\* Several goroutines call Execute, on the same Program or on different ones.
ConcNext ==
  \/ \E c \in FreeCallers, p \in Programs :
       ExecuteCall(c, p) /\ UNCHANGED <<received, engineVars>>
  \/ \E c \in FreeCallers : Execute(c) /\ UNCHANGED <<received, engineVars>>
  \/ Run
  \/ \E e \in ExecIds : Receive(e)

ConcSpec == Start(MaxSharedLines) /\ [][ConcNext]_vars

\* The schedule engine is the only caller of Execute for its program.
SchedNext ==
  \/ \E p \in Scheduled : EngineTrigger(p)
  \/ \E p \in Scheduled : EngineLaunch(p)
  \/ \E p \in Scheduled : Execute(p) /\ UNCHANGED <<received, engineVars>>
  \/ \E p \in Scheduled : EngineLaunched(p)
  \/ \E p \in Scheduled : EngineResult(p)
  \/ \E p \in Scheduled : EngineRetry(p)
  \/ Run

SchedSpec == Start(MaxSharedLines) /\ [][SchedNext]_vars

\* One goroutine calls Execute while an observer reads the histories.
ObsNext ==
  \/ Next
  \/ \E p \in Programs : ExecutionsCall(p)
  \/ ExecutionsReturn

ObsSpec == Start(MaxSharedLines) /\ [][ObsNext]_vars

\* Spec with the scheduling the Go runtime gives the goroutines of an
\* Execution: each one that can take a step eventually takes one.  Nothing is
\* assumed of the child process, of read errors, of the caller or of the
\* receiver of ch.
Fairness ==
  \A e \in ExecIds :
    /\ \A s \in Streams : WF_vars(ForwardProgress(e, s))
    /\ WF_vars(SupervisorReceive(e))
    /\ WF_vars(SupervisorWait(e))
    /\ WF_vars(SupervisorReport(e))
    /\ WF_vars(SupervisorFinish(e))
    /\ WF_vars(RecordMessage(e))

LiveSpec == Spec /\ Fairness

\* ---------------------------------------------------------------- claims
AfterWait == {"report", "finish", "publish", "return", "done"}
BothSignalled(e) == \A s \in Streams : fwd[e][s].pc = "done"
Published(e) == \E i \in 1..Len(received) : received[i].exec = e
\* The positions in Log(e) of the messages of a type.
Of(e, type) == {i \in 1..Len(Log(e)) : Log(e)[i].type = type}
Exited(e, code) == sup[e].term = [kind |-> "exit", code |-> code]

\* C1: the supervisor is at cmd.Wait or beyond it (final message sent, Finish
\* called, result published) only when both forwarders have completed their
\* send on the finished channels.
C1_WaitAfterBothForwarders ==
  \A e \in Created :
    \/ BothSignalled(e)
    \/ /\ sup[e].pc \notin ({"wait"} \cup AfterWait)
       /\ ~status[e].finished
       /\ ~Published(e)
       /\ Of(e, "ok") \cup Of(e, "fail") = {}

\* The supervisor is at cmd.Wait after lines of both streams were forwarded.
C1_Witness ==
  \E e \in Created :
    /\ sup[e].pc = "wait"
    /\ BothSignalled(e)
    /\ Of(e, "out") # {} /\ Of(e, "err") # {}

\* The Execution ended with this status, one message of this type whose text
\* contains the numeral, and no message of the other type.
EndedWith(e, code, type, other, numeral) ==
  /\ status[e].exitCode = code
  /\ Cardinality(Of(e, type)) = 1
  /\ Of(e, other) = {}
  /\ \A i \in Of(e, type) : Contains(Log(e)[i].text, numeral)

\* C2: a process that exits 0 ends Success with exactly one "ok" and no "fail"
\* message; one that exits 1 ends Retry, one that exits 2 ends Failed, each
\* with exactly one "fail" message containing the code.
C2_ContractCodes ==
  \A e \in Created :
    status[e].finished =>
      /\ Exited(e, 0) => EndedWith(e, Success, "ok", "fail", <<>>)
      /\ Exited(e, 1) => EndedWith(e, Retry, "fail", "ok", <<"1">>)
      /\ Exited(e, 2) => EndedWith(e, Failed, "fail", "ok", <<"2">>)

\* An Execution whose process exited 1 is over.
C2_Witness ==
  \E e \in Created : sup[e].pc = "done" /\ Exited(e, 1) /\ status[e].finished

\* C3: a process that exits with a code other than 0, 1 and 2 ends Failed,
\* Failed is what is published on ch, and the "fail" message contains the code.
C3_UnknownCodeIsFailed ==
  \A e \in Created :
    (status[e].finished /\ sup[e].term.kind = "exit" /\ sup[e].term.code \notin {0, 1, 2}) =>
      /\ EndedWith(e, Failed, "fail", "ok", Itoa(sup[e].term.code))
      /\ \A i \in 1..Len(received) : received[i].exec = e => received[i].code = Failed

\* C4: when the exit status cannot be interpreted (a signal killed the
\* process, or the wait call failed) the Execution gets a "fail" message with
\* the raw error text and Status InternalError, never Success or Retry, and no
\* "exited with status" message.
C4_UninterpretableIsInternalError ==
  \A e \in Created :
    (status[e].finished /\ sup[e].term.kind \in {"signal", "waitfail"}) =>
      /\ status[e].exitCode = InternalError
      /\ status[e].exitCode \notin {Success, Retry}
      /\ Cardinality(Of(e, "fail")) = 1
      /\ \A i \in Of(e, "fail") :
           /\ Contains(Log(e)[i].text, <<"failed to run ">>)
           /\ ~Contains(Log(e)[i].text, <<"exited with status ">>)

\* The running Executions of a program.
RunningOf(p) == {e \in Created : prog[e] = p /\ ~status[e].finished}

\* C5: a Program has at most one Execution that is not finished.
C5_OneRunningExecution ==
  \A p \in Programs : Cardinality(RunningOf(p)) <= 1

\* A second run of the program is in flight after the first one ended Retry.
C5_Witness ==
  \E e1, e2 \in Created :
    /\ e1 < e2 /\ prog[e1] = prog[e2]
    /\ status[e1].finished /\ status[e1].exitCode = Retry
    /\ ~status[e2].finished

\* C6: Finish is called exactly once on every path of the supervisor, and a
\* finished status never changes.
C6_StatusSetOnce ==
  /\ [](\A e \in Created :
          /\ finishCalls[e] <= 1
          /\ status[e].finished <=> finishCalls[e] = 1
          /\ sup[e].pc \in {"publish", "return", "done"} => status[e].finished)
  /\ [][\A e \in ExecIds : status[e].finished => status'[e] = status[e]]_vars

\* A supervisor has returned on the path of a failed wait, with Finish called once.
C6_Witness ==
  \E e \in Created :
    /\ sup[e].pc = "done" /\ finishCalls[e] = 1
    /\ sup[e].term.kind = "waitfail"

\* C7: when an Execution is finished its log holds every line the process
\* wrote to stdout and to stderr exactly once.
C7_CaptureComplete ==
  \A e \in Created :
    status[e].finished =>
      \A s \in Streams :
        \A n \in 1..child[e].written[s] :
          Cardinality({i \in Of(e, s) : Log(e)[i].text = LineText(n)}) = 1

\* C8: once the child has closed its streams and exited, the Execution is
\* eventually finished and its result offered on ch.
C8_DrainTerminates ==
  \A e \in ExecIds :
    (e \in Created /\ child[e].exited)
      ~> (status[e].finished /\ sup[e].pc \in {"publish", "return", "done"})

\* A finished Execution whose process wrote more lines than the channel holds.
C8_Witness ==
  \E e \in Created :
    /\ status[e].finished
    /\ child[e].written["out"] + child[e].written["err"] > BUFFER_SIZE
    /\ Cardinality(Of(e, "out") \cup Of(e, "err")) > BUFFER_SIZE

\* C9: a failed launch returns an error and no Execution, leaves the history
\* unchanged, starts no forwarder or supervisor and publishes nothing.
C9_LaunchFailure ==
  [][\A c \in Callers :
       (caller[c].pc = "locked" /\ caller'[c].pc = "returned" /\ caller'[c].err # "nil") =>
         /\ caller'[c].exec = NoExec
         /\ executions' = executions
         /\ execs' = execs
         /\ fwd' = fwd /\ sup' = sup
         /\ received' = received]_vars

\* A launch failed on a program that has an Execution in its history.
C9_Witness ==
  \E c \in Callers :
    /\ caller[c].pc = "returned" /\ caller[c].err # "nil"
    /\ executions[caller[c].prog] # <<>>

\* The callers between p.Lock() and the deferred p.Unlock().
Launching(p) == {c \in Callers : caller[c].prog = p /\ caller[c].pc \in {"locked", "started"}}

\* C10: launches of a Program hold its lock one at a time; each successful one
\* appends exactly its Execution at the end of the history as it returns; the
\* history loses none and is in the order the launches took the lock.
C10_SerializedAppend ==
  /\ [](\A p \in Programs :
          /\ Cardinality(Launching(p)) <= 1
          /\ \A i, j \in 1..Len(executions[p]) :
               i < j => ticket[executions[p][i]] < ticket[executions[p][j]])
  /\ [](\A c \in Callers :
          (caller[c].pc = "returned" /\ caller[c].err = "nil") =>
            \E i \in 1..Len(executions[caller[c].prog]) :
              executions[caller[c].prog][i] = caller[c].exec)
  /\ [][\A p \in Programs :
          executions'[p] # executions[p] =>
            \E c \in Launching(p) :
              /\ mutex[p] = c
              /\ executions'[p] = Append(executions[p], caller[c].exec)
              /\ caller'[c].pc = "returned"]_vars

\* Two launches of the same Program have both appended their Execution.
C10_Witness ==
  \E p \in Programs : Len(executions[p]) = 2

\* C11: while an observer reads a Program's history in Executions(), no
\* Execute appends to that history, and what the read returns is the history
\* of that moment.
C11_ReadExcludesAppend ==
  /\ observer.pc = "read" => executions[observer.prog] = observer.before
  /\ (observer.pc = "idle" /\ observer.prog \in Programs) =>
       \A i \in 1..Len(observer.seen) : observer.seen[i] \in Created

\* C12: the messages channel of an Execution is closed exactly when its
\* status is terminal: it is never open while the status is terminal (the
\* supervisor publishing the result included) and never closed before.
C12_LogClosedAtTerminal ==
  \A e \in Created : status[e].finished <=> "messages" \in closedCh[e]

\* The values published on ch for an Execution.
PublishedFor(e) == {i \in 1..Len(received) : received[i].exec = e}

\* C13: an Execution publishes at most one value on ch, exactly one once its
\* supervisor has returned; the value is the status Finish set, and it is
\* published after Finish.
C13_PublishedOnceAfterFinish ==
  \A e \in Created :
    /\ Cardinality(PublishedFor(e)) <= 1
    /\ sup[e].pc \in {"return", "done"} <=> Cardinality(PublishedFor(e)) = 1
    /\ \A i \in PublishedFor(e) :
         /\ status[e].finished
         /\ finishCalls[e] = 1
         /\ received[i].code = status[e].exitCode

\* The result of a run whose wait call failed has been received.
C13_Witness ==
  \E e \in Created :
    /\ PublishedFor(e) # {}
    /\ sup[e].term.kind = "waitfail"
    /\ status[e].exitCode = Failed

\* The messages of one stream in the log, in log order.
StreamLog(e, s) == SelectSeq(Log(e), LAMBDA m : m.type = s)

\* C16: the k-th "out" message of the log is the k-th line read from stdout,
\* and likewise for "err" and stderr; a forwarder has appended every line it
\* read except the one it is about to send.
C16_PerStreamOrder ==
  \A e \in Created : \A s \in Streams :
    /\ \A k \in 1..Len(StreamLog(e, s)) : StreamLog(e, s)[k].text = LineText(k)
    /\ Len(StreamLog(e, s)) =
         IF fwd[e][s].pc = "send" THEN fwd[e][s].read - 1 ELSE fwd[e][s].read

\* Two lines of one stream are in the log.
C16_Witness ==
  \E e \in Created : \E s \in Streams :
    /\ Len(StreamLog(e, s)) = 2
    /\ fwd[e][s].pc = "done"

\* The positions of the terminal annotations in the log.
Annotations(e) == Of(e, "ok") \cup Of(e, "fail")

\* C19: an Execution has at most one "ok" or "fail" message, exactly one once
\* it is finished, and that message is the last one of the log.
C19_AnnotationLast ==
  \A e \in Created :
    /\ Cardinality(Annotations(e)) <= 1
    /\ status[e].finished => Cardinality(Annotations(e)) = 1
    /\ \A i \in Annotations(e) : i = Len(Log(e))

\* A finished Execution whose log holds an "out" and an "err" line before the
\* annotation.
C19_Witness ==
  \E e \in Created :
    /\ status[e].finished
    /\ Of(e, "out") # {} /\ Of(e, "err") # {}
    /\ Len(Log(e)) \in Annotations(e)

\* The finished channel a forwarder sends on.
FinishedChannel(s) == IF s = "out" THEN "stdoutFinished" ELSE "stderrFinished"

\* C20: no send is made on a closed channel.  When the channels of an
\* Execution are closed both forwarders have completed their send on the
\* finished channels and the supervisor has returned; no message is sent on a
\* closed messages channel and no completion on a closed finished channel.
C20_NoSendOnClosed ==
  /\ [](\A e \in Created :
          closedCh[e] # {} =>
            /\ BothSignalled(e)
            /\ sup[e].pc = "done"
            /\ Annotations(e) # {})
  /\ [][\A e \in ExecIds :
          /\ Len(recorded'[e]) + Len(messages'[e]) > Len(recorded[e]) + Len(messages[e])
               => "messages" \notin closedCh[e]
          /\ \A s \in Streams :
               (fwd[e][s].pc = "signal" /\ fwd'[e][s].pc = "done")
                 => FinishedChannel(s) \notin closedCh[e]]_vars

\* The channels are closed after a forwarder was stopped by a read error and
\* the other forwarded a line.
C20_Witness ==
  \E e \in Created :
    /\ "messages" \in closedCh[e]
    /\ Of(e, "out") \cup Of(e, "err") # {}
    /\ \E s \in Streams : fwd[e][s].read < child[e].written[s]

\* The Executions of a program created since its daily trigger last fired,
\* and the part of its history appended since.
RunsToday(p) == {e \in Created : e > dayStart[p] /\ prog[e] = p}
HistoryToday(p) == SelectSeq(executions[p], LAMBDA e : e > dayStart[p])
EndedAs(e, code) == status[e] = [finished |-> TRUE, exitCode |-> code]

\* C14: when the first run of the day of a Program ended Retry and the next
\* attempt exited 0, then once the engine has its result the history of that
\* day is exactly these two Executions, the first Retry and the second
\* Success; and an Execution of a Program is created only when every earlier
\* one of that Program is terminal.
C14_RetryThenSuccess ==
  /\ [](\A p \in Scheduled :
          LET e1 == dayStart[p] + 1
              e2 == dayStart[p] + 2
          IN (/\ engine[p] = "DoneToday"
              /\ {e1, e2} \subseteq RunsToday(p)
              /\ EndedAs(e1, Retry)
              /\ Exited(e2, 0))
               => /\ HistoryToday(p) = <<e1, e2>>
                  /\ RunsToday(p) = {e1, e2}
                  /\ EndedAs(e2, Success))
  /\ [][\A e \in ExecIds :
          (e \notin 1..execs /\ e \in 1..execs') =>
            \A d \in Created : prog[d] = prog'[e] => status[d].finished]_vars

\* The day is done after a run that ended Retry and a second one that ended
\* Success.
C14_Witness ==
  \E p \in Scheduled :
    /\ engine[p] = "DoneToday"
    /\ HistoryToday(p) = <<dayStart[p] + 1, dayStart[p] + 2>>
    /\ EndedAs(dayStart[p] + 1, Retry)
    /\ EndedAs(dayStart[p] + 2, Success)

\* C15: a result other than Retry moves the engine to DoneToday and a Retry
\* result to RetryScheduled; DoneToday is left only by the daily trigger;
\* Execute is called only when the program is Due; and every run of a day
\* that was followed by another run on that day ended Retry.
C15_TerminalForTheDay ==
  /\ [](\A p \in Scheduled : \A e1, e2 \in RunsToday(p) :
          e1 < e2 => EndedAs(e1, Retry))
  /\ [][\A p \in Scheduled :
          /\ (Len(received') > Len(received) /\ prog[received'[Len(received')].exec] = p)
               => engine'[p] = IF received'[Len(received')].code = Retry
                               THEN "RetryScheduled" ELSE "DoneToday"
          /\ (engine[p] = "DoneToday" /\ engine'[p] # "DoneToday")
               => (engine'[p] = "Due" /\ dayStart'[p] = execs)
          /\ (caller[p].pc = "idle" /\ caller'[p].pc = "lock") => engine[p] = "Due"]_vars

\* The engine is done for the day after a run that ended Failed, with a
\* launch left.
C15_Witness ==
  \E p \in Scheduled :
    /\ engine[p] = "DoneToday"
    /\ runsLeft > 0
    /\ \E e \in RunsToday(p) : EndedAs(e, Failed) /\ PublishedFor(e) # {}

\* A read error stopped the forwarder of a stream: it is past its loop with
\* lines of the stream unread.
ReadError(e, s) ==
  /\ fwd[e][s].pc \notin {"none", "scan", "send"}
  /\ fwd[e][s].read < child[e].written[s]

\* The code the supervisor gives a termination of the process.
CodeOf(t) ==
  IF t.kind = "exit" THEN t.code ELSE IF t.kind = "signal" THEN 0 - 1 ELSE Failed

\* C17: the status of a finished Execution is a function of how its process
\* ended, read errors or not; a forwarder completes its send on the finished
\* channel once and stays done; and after a read error, once the process has
\* exited, the supervisor reaps it and the Execution is finished.
C17_ReadErrorHarmless ==
  /\ [](\A e \in Created :
          status[e].finished =>
            /\ status[e].exitCode = CodeOf(sup[e].term)
            /\ BothSignalled(e))
  /\ [][\A e \in ExecIds : \A s \in Streams :
          /\ fwd[e][s].pc = "done" => fwd'[e][s].pc = "done"
          /\ (fwd[e][s].pc # "done" /\ fwd'[e][s].pc = "done")
               => (fwd[e][s].pc = "signal" /\ sup'[e].pc # sup[e].pc)]_vars
  /\ \A e \in ExecIds : \A s \in Streams :
       (e \in Created /\ ReadError(e, s) /\ child[e].exited)
         ~> (status[e].finished /\ sup[e].term.kind # "none")

\* A run whose stdout forwarder was stopped by a read error ended Success.
C17_Witness ==
  \E e \in Created :
    /\ ReadError(e, "out")
    /\ Exited(e, 0)
    /\ EndedAs(e, Success)

\* C18: a caller waiting for the lock of a Program whose lock is free can take
\* it, whatever the state of the other Programs; and a step of a call of
\* Execute changes neither the history nor the lock of another Program.
C18_ProgramsIndependent ==
  /\ [](\A c \in Callers :
          (caller[c].pc = "lock" /\ mutex[caller[c].prog] = NoOne)
            => ENABLED (ExecuteLock(c) /\ UNCHANGED <<received, engineVars>>))
  /\ [][\A c \in Callers : \A p \in Programs :
          (caller'[c] # caller[c] /\ caller'[c].prog # p)
            => (executions'[p] = executions[p] /\ mutex'[p] = mutex[p])]_vars

\* While a launch of one Program still holds that Program's lock, a launch of
\* another Program that took its lock later has run to a terminal status.
C18_Witness ==
  \E c \in Callers : \E e \in Created :
    /\ caller[c].pc = "locked"
    /\ prog[e] # caller[c].prog
    /\ ticket[e] > caller[c].ticket
    /\ status[e].finished
    /\ executions[caller[c].prog] = <<>>

====
